---- MODULE Spec2Model ----
(***************************************************************************)
(* pywwb (src/pywwb.py): find the visible top-level windows whose title    *)
(* matches one of the given patterns and force them into borderless        *)
(* fullscreen.                                                             *)
(*                                                                         *)
(* The window manager is the environment.  A window handle is the index of *)
(* the window in the window manager's enumeration order.  Rectangles are   *)
(* <<left, top, right, bottom>> in desktop coordinates, as GetMonitorInfo  *)
(* and GetWindowRect give them.  A style mask is the set of its WS_ bits.  *)
(* Titles and patterns are sequences of characters; the patterns are the   *)
(* regular expressions without metacharacters, for which search() is a     *)
(* substring test.                                                         *)
(*                                                                         *)
(* Two specifications:                                                     *)
(*   Spec     one run of the script, main() (lines 76-83);                 *)
(*   SpecApi  a caller of the module's functions make_fullscreen and       *)
(*            strip_decorations on one window, several times.              *)
(***************************************************************************)
EXTENDS Integers, Sequences, FiniteSets

VARIABLES
    desktop,    \* the window manager's top-level windows, in enumeration order
    desktop0,   \* history: the windows as they were before the program acted
    monitors,   \* the monitors' rectangles
    args,       \* the parsed command line (lines 97-133)
    entry,      \* "main": the script runs; "api": the functions are called
    pc,         \* the program's position
    i,          \* EnumWindows: the window the callback is called on next
    patterns,   \* main: `patterns`, the compiled patterns
    matches,    \* get_windows: `windows`; main: `matches`
    k,          \* main: the position of the for loop in matches
    hwnd,       \* make_fullscreen / strip_decorations: the argument
    cond,       \* the state of window hwnd as the window manager sees it
    before,     \* history: window hwnd as it was when the call began
    width,      \* make_fullscreen: local `width`
    height,     \* make_fullscreen: local `height`
    resolved,   \* history: the rectangle of the monitor get_monitor returned
    log,        \* history: the window manager calls of the current call
    attempted,  \* history: the handles make_fullscreen was called on
    after,      \* history: <<style, rect>> after each of the successive
                \*          completed make_fullscreen calls
    calls,      \* SpecApi: the number of calls made
    exc,        \* the exception that left the last call ("none": it returned)
    status      \* the process exit status (-1: still running)

vars == <<desktop, desktop0, monitors, args, entry, pc, i, patterns, matches,
          k, hwnd, cond, before, width, height, resolved, log, attempted,
          after, calls, exc, status>>

-----------------------------------------------------------------------------
(* Bounds *)

MaxWindows == 3
MaxCalls == 3

-----------------------------------------------------------------------------
(* Rectangles and monitors *)

Left(r) == r[1]
Top(r) == r[2]
Right(r) == r[3]
Bottom(r) == r[4]

Max(a, b) == IF a >= b THEN a ELSE b
Min(a, b) == IF a <= b THEN a ELSE b

\* The area two rectangles share.
IntersectArea(r, m) ==
    LET w == Min(Right(r), Right(m)) - Max(Left(r), Left(m))
        h == Min(Bottom(r), Bottom(m)) - Max(Top(r), Top(m))
    IN  IF w > 0 /\ h > 0 THEN w * h ELSE 0

\* The squared distance between two rectangles that share nothing.
Distance(r, m) ==
    LET dx == Max(0, Max(Left(m) - Right(r), Left(r) - Right(m)))
        dy == Max(0, Max(Top(m) - Bottom(r), Top(r) - Bottom(m)))
    IN  dx * dx + dy * dy

\* MonitorFromWindow(hwnd, MONITOR_DEFAULTTONEAREST): the monitor that shares
\* the largest area with the window, and the nearest one when none shares
\* any.  Which of several equal ones is returned is the window manager's
\* choice: the result is the set of monitors it may return.
MonitorFromWindow(rect, mons) ==
    LET ms == {mons[j] : j \in 1..Len(mons)}
        overlapping == {m \in ms : IntersectArea(rect, m) > 0}
    IN  IF overlapping # {}
        THEN {m \in overlapping :
                \A o \in overlapping :
                    IntersectArea(rect, m) >= IntersectArea(rect, o)}
        ELSE {m \in ms : \A o \in ms : Distance(rect, m) <= Distance(rect, o)}

\* get_monitor(hwnd)["Monitor"]
get_monitor(rect, mons) == MonitorFromWindow(rect, mons)

-----------------------------------------------------------------------------
(* Styles *)

\* BORDERLESS_STYLE = con.WS_VISIBLE | con.WS_POPUP | con.WS_CLIPCHILDREN
BORDERLESS_STYLE == {"WS_VISIBLE", "WS_POPUP", "WS_CLIPCHILDREN"}

\* con.SWP_FRAMECHANGED | con.SWP_SHOWWINDOW
SWP_FLAGS == {"SWP_FRAMECHANGED", "SWP_SHOWWINDOW"}

OverlappedStyle == {"WS_VISIBLE", "WS_CAPTION", "WS_THICKFRAME", "WS_SYSMENU"}
HiddenStyle == {"WS_CAPTION", "WS_THICKFRAME", "WS_SYSMENU"}
PopupStyle == {"WS_VISIBLE", "WS_POPUP"}
MaximizedStyle == {"WS_VISIBLE", "WS_CAPTION", "WS_MAXIMIZE", "WS_CLIPCHILDREN"}

\* gui.IsWindowVisible(hwnd): the WS_VISIBLE bit of a top-level window.
IsWindowVisible(w) == "WS_VISIBLE" \in w.style

\* gui.GetWindowText(hwnd)
GetWindowText(w) == w.title

\* The style that SetWindowLong(hwnd, GWL_STYLE, BORDERLESS_STYLE) leaves on
\* a window whose style was `old`.
StyleOr(old) == old \cup BORDERLESS_STYLE
SetWindowLongStyle(old) == BORDERLESS_STYLE

\* The style after SetWindowPos with the flags `flags`: SWP_SHOWWINDOW shows
\* the window.
ShownStyle(style, flags) ==
    IF "SWP_SHOWWINDOW" \in flags THEN style \cup {"WS_VISIBLE"} ELSE style

\* The flags make_fullscreen passes to SetWindowPos (line 72).
make_fullscreen_flags == SWP_FLAGS

\* The rectangle of a window after SetWindowPos(hwnd, _, x, y, cx, cy, _).
SetWindowPosRect(x, y, cx, cy) == <<x, y, x + cx, y + cy>>

-----------------------------------------------------------------------------
(* Patterns *)

\* The lower-case form of a character.
Lower(c) ==
    CASE c = "G" -> "g"
      [] c = "M" -> "m"
      [] OTHER   -> c

\* re.compile(pat, re.I if case_insensitive else 0)
Compile(pat, case_insensitive) == [text |-> pat, ignorecase |-> case_insensitive]

\* Whether the compiled pattern matches the text at offset `at`.
MatchesAt(p, text, at) ==
    \A j \in 1..Len(p.text) :
        IF p.ignorecase
        THEN Lower(text[at + j]) = Lower(p.text[j])
        ELSE text[at + j] = p.text[j]

\* pattern.search(title): a match anywhere in the title.
Search(p, text) ==
    \E at \in 0..(Len(text) - Len(p.text)) : MatchesAt(p, text, at)

\* any(pattern.search(title) for pattern in patterns)
AllSearch(pats, title) == \A j \in 1..Len(pats) : Search(pats[j], title)
AnySearch(pats, title) == \E j \in 1..Len(pats) : Search(pats[j], title)

\* _callback: whether the window is appended to `windows` (lines 32-35).
AcceptsHidden(w, pats) == AnySearch(pats, GetWindowText(w))
CallbackAccepts(w, pats) ==
    IsWindowVisible(w) /\ AnySearch(pats, GetWindowText(w))

\* _callback: whether StopIteration is raised after an append (lines 36-37).
NeverStops(all_matches) == FALSE
StopsEnumeration(all_matches) == ~all_matches

-----------------------------------------------------------------------------
(* The inputs *)

Primary == <<0, 0, 1920, 1080>>

\* The monitor layouts: the primary monitor alone, and with a smaller, a
\* larger and an equal monitor to its right.
Layouts ==
    { <<Primary>>,
      <<Primary, <<1920, 0, 2944, 768>>>>,
      <<Primary, <<1920, 0, 4480, 1440>>>>,
      <<Primary, <<1920, 0, 3840, 1080>>>> }

\* Where a window is before the program acts: x, y, width, height of
\* 100, 100, 640, 480 on the primary monitor, the same on the monitor to its
\* right, and across the edge between the two.
WindowRects ==
    { <<100, 100, 740, 580>>,
      <<2000, 100, 2640, 580>>,
      <<1800, 100, 2440, 580>> }

\* The pattern lists main is given.  The command line has at least one
\* pattern (nargs="+"); main and get_windows take the empty list as well.
PatternLists ==
    { <<>>,
      << <<"G", "m">> >>,
      << <<"g">> >>,
      << <<"y">>, <<"m", "x">> >>,
      << <<>> >> }

\* The windows of a desktop the script runs on.
WindowKinds ==
    { [title |-> <<"m", "y", "G", "m">>, style |-> OverlappedStyle, menu |-> TRUE],
      [title |-> <<"m", "y", "G", "m">>, style |-> HiddenStyle, menu |-> FALSE],
      [title |-> <<"g", "m", "x">>, style |-> PopupStyle, menu |-> FALSE],
      [title |-> <<"g", "m", "x">>, style |-> HiddenStyle, menu |-> TRUE],
      [title |-> <<"x">>, style |-> OverlappedStyle, menu |-> TRUE],
      [title |-> <<>>, style |-> MaximizedStyle, menu |-> FALSE] }

Window(kind, rect) ==
    [title |-> kind.title, style |-> kind.style, menu |-> kind.menu, rect |-> rect]

\* What the window manager makes of a call on a window: the window is there
\* and takes the call ("live"); it was destroyed ("stale"); it reports no
\* display device ("nodisplay"); it belongs to a process the caller may not
\* change ("protected").
Conds == {"live", "stale", "nodisplay", "protected"}

Desktops(n) ==
    UNION { [1..m -> {Window(kd, <<100, 100, 740, 580>>) : kd \in WindowKinds}] :
            m \in 0..n }

Locals ==
    /\ i = 0
    /\ patterns = <<>>
    /\ matches = <<>>
    /\ k = 0
    /\ hwnd = 0
    /\ cond = "live"
    /\ before = Window([title |-> <<>>, style |-> {}, menu |-> FALSE],
                       <<0, 0, 0, 0>>)
    /\ width = 0
    /\ height = 0
    /\ resolved = <<>>
    /\ log = <<>>
    /\ attempted = {}
    /\ after = <<>>
    /\ calls = 0
    /\ exc = "none"
    /\ status = -1

\* main is called (line 133): any desktop, any arguments.
Init ==
    /\ entry = "main"
    /\ pc = "main"
    /\ desktop \in Desktops(MaxWindows)
    /\ desktop0 = desktop
    /\ monitors = <<Primary, <<1920, 0, 2944, 768>>>>
    /\ args \in [patterns : PatternLists,
                 all_matches : BOOLEAN,
                 case_insensitive : BOOLEAN,
                 remove_decorations : BOOLEAN]
    /\ Locals

\* The module is imported: one window, anywhere, in any style.
InitApi ==
    /\ entry = "api"
    /\ pc = "idle"
    /\ desktop \in
         { << [title |-> <<"x">>, style |-> st, menu |-> mn, rect |-> r] >> :
             st \in {OverlappedStyle, HiddenStyle, PopupStyle, MaximizedStyle},
             mn \in BOOLEAN,
             r \in WindowRects }
    /\ desktop0 = desktop
    /\ monitors \in Layouts
    /\ args = [patterns |-> <<>>, all_matches |-> FALSE,
               case_insensitive |-> FALSE, remove_decorations |-> FALSE]
    /\ Locals

-----------------------------------------------------------------------------
(* Calls and returns *)

\* The window manager call `api` on hwnd, as the log keeps it.
Call(api, ok, flags) == [api |-> api, hwnd |-> hwnd, ok |-> ok, flags |-> flags]

\* The statements of make_fullscreen in their order: line 63, line 64,
\* lines 65-73.
GeometryBeforeMonitor == <<"mf_style", "mf_pos", "mf_monitor">>
make_fullscreen_body == <<"mf_style", "mf_monitor", "mf_pos">>

Position(stmt) ==
    CHOOSE n \in 1..Len(make_fullscreen_body) : make_fullscreen_body[n] = stmt

\* make_fullscreen returns: to main's loop (lines 80-81), or to the caller.
Return ==
    /\ exc' = "none"
    /\ IF entry = "main"
       THEN pc' = "loop" /\ k' = k + 1 /\ status' = status
       ELSE pc' = "idle" /\ UNCHANGED <<k, status>>

\* A window manager call raises (pywintypes.error).  Neither make_fullscreen
\* nor main catches it: the script ends with a traceback and exit status 1.
Raise(api) ==
    /\ exc' = api
    /\ after' = <<>>
    /\ IF entry = "main"
       THEN pc' = "exit" /\ status' = 1
       ELSE pc' = "idle" /\ status' = status
    /\ k' = k

\* The statement `stmt` of make_fullscreen is done: the next one, or the
\* return after the last.
Proceed(stmt) ==
    IF Position(stmt) = Len(make_fullscreen_body)
    THEN Return
    ELSE /\ pc' = make_fullscreen_body[Position(stmt) + 1]
         /\ UNCHANGED <<k, exc, status>>

-----------------------------------------------------------------------------
(* main and get_windows *)

\* Lines 77-78, 29, 40: the patterns are compiled and get_windows starts
\* EnumWindows.
Main ==
    /\ pc = "main"
    /\ patterns' = [j \in 1..Len(args.patterns) |->
                      Compile(args.patterns[j], args.case_insensitive)]
    /\ matches' = <<>>
    /\ i' = 1
    /\ pc' = "enum"
    /\ UNCHANGED <<desktop, desktop0, monitors, args, entry, k, hwnd, cond, before,
                   width, height, resolved, log, attempted, after, calls, exc,
                   status>>

\* Lines 31-37: EnumWindows calls _callback on the next window.  StopIteration
\* ends EnumWindows and is caught (lines 41-42): get_windows returns, main
\* prints the matches (line 79) and starts its loop.
Callback ==
    /\ pc = "enum"
    /\ i <= Len(desktop)
    /\ IF CallbackAccepts(desktop[i], patterns)
       THEN /\ matches' = Append(matches, i)
            /\ IF StopsEnumeration(args.all_matches)
               THEN pc' = "loop" /\ k' = 1 /\ i' = i
               ELSE pc' = "enum" /\ k' = k /\ i' = i + 1
       ELSE /\ matches' = matches
            /\ pc' = "enum" /\ k' = k /\ i' = i + 1
    /\ UNCHANGED <<desktop, desktop0, monitors, args, entry, patterns, hwnd,
                   cond, before, width, height, resolved, log, attempted, after,
                   calls, exc, status>>

\* Lines 40, 43, 79: EnumWindows has called _callback on every window and
\* returns.
EnumReturn ==
    /\ pc = "enum"
    /\ i > Len(desktop)
    /\ pc' = "loop"
    /\ k' = 1
    /\ UNCHANGED <<desktop, desktop0, monitors, args, entry, i, patterns,
                   matches, hwnd, cond, before, width, height, resolved, log,
                   attempted, after, calls, exc, status>>

\* Line 40: EnumWindows itself fails.  The exception is no StopIteration and
\* is not caught.
EnumFail ==
    /\ pc = "enum"
    /\ exc' = "EnumWindows"
    /\ pc' = "exit"
    /\ status' = 1
    /\ UNCHANGED <<desktop, desktop0, monitors, args, entry, i, patterns,
                   matches, k, hwnd, cond, before, width, height, resolved, log,
                   attempted, after, calls>>

\* Lines 80-81: the loop calls make_fullscreen on the next match.
LoopCall ==
    /\ pc = "loop"
    /\ k <= Len(matches)
    /\ hwnd' = matches[k]
    /\ before' = desktop[matches[k]]
    /\ cond' \in Conds
    /\ log' = <<>>
    /\ attempted' = attempted \cup {matches[k]}
    /\ after' = IF matches[k] = hwnd THEN after ELSE <<>>
    /\ pc' = make_fullscreen_body[1]
    /\ UNCHANGED <<desktop, desktop0, monitors, args, entry, i, patterns,
                   matches, k, width, height, resolved, calls, exc, status>>

\* Line 83 (and sys.exit, line 133): the loop is over, main returns 0.
MainReturn ==
    /\ pc = "loop"
    /\ k > Len(matches)
    /\ status' = 0
    /\ pc' = "exit"
    /\ UNCHANGED <<desktop, desktop0, monitors, args, entry, i, patterns,
                   matches, k, hwnd, cond, before, width, height, resolved, log,
                   attempted, after, calls, exc>>

-----------------------------------------------------------------------------
(* make_fullscreen *)

\* Line 63: gui.SetWindowLong(hwnd, con.GWL_STYLE, BORDERLESS_STYLE).  On a
\* window that is gone or protected the style stays; the call returns 0 or
\* raises.
SetWindowLong ==
    /\ pc = "mf_style"
    /\ \/ /\ cond \in {"live", "nodisplay"}
          /\ desktop' = [desktop EXCEPT
                           ![hwnd].style = SetWindowLongStyle(desktop[hwnd].style)]
          /\ log' = Append(log, Call("SetWindowLong", TRUE, {}))
          /\ Proceed("mf_style")
          /\ after' = after
       \/ /\ cond \in {"stale", "protected"}
          /\ desktop' = desktop
          /\ log' = Append(log, Call("SetWindowLong", FALSE, {}))
          /\ Proceed("mf_style")
          /\ after' = after
       \/ /\ cond \in {"stale", "protected"}
          /\ desktop' = desktop
          /\ log' = Append(log, Call("SetWindowLong", FALSE, {}))
          /\ Raise("SetWindowLong")
    /\ UNCHANGED <<desktop0, monitors, args, entry, i, patterns, matches,
                   hwnd, cond, before, width, height, resolved, attempted, calls>>

\* Line 64: width, height = get_monitor(hwnd)["Monitor"][2:], the last two
\* of (left, top, right, bottom).  A window with no display device makes
\* GetMonitorInfo raise; for a window that is gone it raises or gives some
\* monitor.
GetMonitor ==
    /\ pc = "mf_monitor"
    /\ \/ /\ cond # "nodisplay"
          /\ \E m \in IF cond = "stale"
                      THEN {monitors[j] : j \in 1..Len(monitors)}
                      ELSE get_monitor(desktop[hwnd].rect, monitors) :
                /\ resolved' = m
                /\ width' = m[3]
                /\ height' = m[4]
          /\ log' = Append(log, Call("GetMonitorInfo", TRUE, {}))
          /\ Proceed("mf_monitor")
          /\ after' = after
       \/ /\ cond \in {"nodisplay", "stale"}
          /\ log' = Append(log, Call("GetMonitorInfo", FALSE, {}))
          /\ Raise("GetMonitorInfo")
          /\ UNCHANGED <<resolved, width, height>>
    /\ UNCHANGED <<desktop, desktop0, monitors, args, entry, i, patterns,
                   matches, hwnd, cond, before, attempted, calls>>

\* Lines 65-73: gui.SetWindowPos(hwnd, con.HWND_TOP, 0, 0, width, height,
\* con.SWP_FRAMECHANGED | con.SWP_SHOWWINDOW); make_fullscreen returns.
SetWindowPos ==
    /\ pc = "mf_pos"
    /\ \/ /\ cond = "live"
          /\ desktop' = [desktop EXCEPT
                ![hwnd].rect = SetWindowPosRect(0, 0, width, height),
                ![hwnd].style = ShownStyle(desktop[hwnd].style,
                                           make_fullscreen_flags)]
          /\ log' = Append(log, Call("SetWindowPos", TRUE, make_fullscreen_flags))
          /\ after' = Append(after, <<desktop'[hwnd].style, desktop'[hwnd].rect>>)
          /\ Proceed("mf_pos")
       \/ /\ cond # "live"
          /\ desktop' = desktop
          /\ log' = Append(log, Call("SetWindowPos", FALSE, make_fullscreen_flags))
          /\ Raise("SetWindowPos")
    /\ UNCHANGED <<desktop0, monitors, args, entry, i, patterns, matches,
                   hwnd, cond, before, width, height, resolved, attempted, calls>>

-----------------------------------------------------------------------------
(* The module's functions, called by another program *)

\* make_fullscreen(h) is called.
CallMakeFullscreen ==
    /\ pc = "idle"
    /\ calls < MaxCalls
    /\ \E h \in 1..Len(desktop) :
          /\ hwnd' = h
          /\ before' = desktop[h]
          /\ attempted' = attempted \cup {h}
          /\ after' = IF h = hwnd THEN after ELSE <<>>
    /\ cond' \in Conds
    /\ log' = <<>>
    /\ calls' = calls + 1
    /\ pc' = make_fullscreen_body[1]
    /\ UNCHANGED <<desktop, desktop0, monitors, args, entry, i, patterns,
                   matches, k, width, height, resolved, exc, status>>

\* Lines 51-58: strip_decorations(h), gui.SetMenu(hwnd, None).
strip_decorations ==
    /\ pc = "idle"
    /\ calls < MaxCalls
    /\ \E h \in 1..Len(desktop) :
          /\ hwnd' = h
          /\ before' = desktop[h]
          /\ \/ /\ desktop' = [desktop EXCEPT ![h].menu = FALSE]
                /\ log' = <<[api |-> "SetMenu", hwnd |-> h, ok |-> TRUE,
                             flags |-> {}]>>
                /\ cond' = "live"
                /\ exc' = "none"
             \/ /\ desktop' = desktop
                /\ log' = <<[api |-> "SetMenu", hwnd |-> h, ok |-> FALSE,
                             flags |-> {}]>>
                /\ cond' \in {"stale", "protected"}
                /\ exc' = "SetMenu"
    /\ after' = <<>>
    /\ calls' = calls + 1
    /\ pc' = "idle"
    /\ UNCHANGED <<desktop0, monitors, args, entry, i, patterns, matches, k,
                   width, height, resolved, attempted, status>>

-----------------------------------------------------------------------------
(* The specifications *)

Next ==
    \/ Main
    \/ Callback
    \/ EnumReturn
    \/ EnumFail
    \/ LoopCall
    \/ MainReturn
    \/ SetWindowLong
    \/ GetMonitor
    \/ SetWindowPos

Spec == Init /\ [][Next]_vars

NextApi ==
    \/ CallMakeFullscreen
    \/ strip_decorations
    \/ SetWindowLong
    \/ GetMonitor
    \/ SetWindowPos

SpecApi == InitApi /\ [][NextApi]_vars

-----------------------------------------------------------------------------
(* What the claims speak of *)

Range(s) == {s[j] : j \in 1..Len(s)}

\* The title of window h satisfies at least one of the patterns given.
TitleSatisfies(h) ==
    \E j \in 1..Len(args.patterns) :
        Search(Compile(args.patterns[j], args.case_insensitive),
               desktop0[h].title)

\* The windows get_windows is to find: visible, with a title that satisfies.
Wanted ==
    {h \in 1..Len(desktop0) :
        "WS_VISIBLE" \in desktop0[h].style /\ TitleSatisfies(h)}

\* get_windows has returned to main.
Enumerated ==
    /\ entry = "main"
    /\ \/ pc \in {"loop", "mf_style", "mf_monitor", "mf_pos"}
       \/ pc = "exit" /\ exc # "EnumWindows"

\* The script has ended.
Exited == entry = "main" /\ pc = "exit"

\* The last call was make_fullscreen(hwnd), and it returned.
Completed ==
    /\ pc \in {"idle", "loop", "exit"}
    /\ exc = "none"
    /\ log # <<>>
    /\ log[Len(log)].api = "SetWindowPos"
    /\ log[Len(log)].ok

Writes == {"SetWindowLong", "SetWindowPos"}

-----------------------------------------------------------------------------
(* The claims *)

\* C1: with all_matches, get_windows returns exactly the windows that are
\* visible and whose title satisfies at least one pattern, each once, in the
\* window manager's enumeration order.
C1_AllMatches ==
    (Enumerated /\ args.all_matches) =>
        /\ Range(matches) = Wanted
        /\ \A a, b \in 1..Len(matches) : a < b => matches[a] < matches[b]

\* C1's case: a window is returned and an invisible window with a title that
\* satisfies is left out.
C1_Witness ==
    /\ Enumerated /\ args.all_matches
    /\ matches # <<>>
    /\ \E h \in 1..Len(desktop0) :
          TitleSatisfies(h) /\ "WS_VISIBLE" \notin desktop0[h].style

\* C2: without all_matches, get_windows returns at most one window; a window
\* returned is the first of the visible windows that satisfy, EnumWindows
\* having stopped at it, and nothing is returned only when there is none.
C2_FirstOnly ==
    (Enumerated /\ ~args.all_matches) =>
        /\ Len(matches) <= 1
        /\ Len(matches) = 1 =>
              /\ matches[1] \in Wanted
              /\ \A h \in Wanted : matches[1] <= h
              /\ i = matches[1]
        /\ Len(matches) = 0 => Wanted = {}

\* C2's case: two windows are wanted and the first alone is returned.
C2_Witness ==
    /\ Enumerated /\ ~args.all_matches
    /\ Len(matches) = 1
    /\ Cardinality(Wanted) >= 2

\* C3: after make_fullscreen(h) has returned, the rectangle of window h is
\* the rectangle of the monitor that was resolved.
C3_CoversMonitor ==
    Completed => desktop[hwnd].rect = resolved

\* C4 as stated: in a call of make_fullscreen no style or geometry write
\* comes before the monitor query, and a failed monitor query leaves the
\* style and the rectangle of the window as they were.
C4_MonitorFirst ==
    /\ \A j \in 1..Len(log) :
          log[j].api \in Writes =>
              \E a \in 1..(j - 1) : log[a].api = "GetMonitorInfo" /\ log[a].ok
    /\ exc = "GetMonitorInfo" =>
          /\ desktop[hwnd].style = before.style
          /\ desktop[hwnd].rect = before.rect

\* C4 as amended: in a call of make_fullscreen the style write comes first,
\* the monitor query second, and no geometry write comes before a monitor
\* query that succeeded; a failed monitor query leaves the rectangle of the
\* window as it was.
C4_MonitorBeforeGeometry ==
    /\ \A j \in 1..Len(log) :
          /\ log[j].api = "SetWindowPos" =>
                \E a \in 1..(j - 1) :
                    log[a].api = "GetMonitorInfo" /\ log[a].ok
          /\ log[j].api = "GetMonitorInfo" =>
                \E a \in 1..(j - 1) : log[a].api = "SetWindowLong"
    /\ exc = "GetMonitorInfo" => desktop[hwnd].rect = before.rect

\* C4's case: the monitor query failed when the style was already written.
C4_Witness ==
    /\ exc = "GetMonitorInfo"
    /\ log[1].api = "SetWindowLong" /\ log[1].ok
    /\ desktop[hwnd].style # before.style
    /\ desktop[hwnd].rect = before.rect

\* C5: of two successive calls of make_fullscreen(h) the second leaves the
\* style and the rectangle of window h as the first left them.
C5_Idempotent ==
    \A a \in 2..Len(after) : after[a] = after[a - 1]

\* C6: when the script ends after get_windows has returned, make_fullscreen
\* has been called on every matched window.
C6_AllAttempted ==
    (Exited /\ exc # "EnumWindows") => Range(matches) \subseteq attempted

\* C7: with remove_decorations the menu of a matched window is removed, and
\* first of all; without it no menu is touched.
C7_MenusRemoved ==
    /\ (args.remove_decorations /\ log # <<>>) => log[1].api = "SetMenu"
    /\ (Exited /\ status = 0) =>
          IF args.remove_decorations
          THEN \A h \in Range(matches) : ~desktop[h].menu
          ELSE \A h \in 1..Len(desktop) : desktop[h].menu = desktop0[h].menu

\* C8: after make_fullscreen(h) has returned, the style of window h is the
\* borderless mask and nothing else, and SetWindowPos was given
\* SWP_FRAMECHANGED and SWP_SHOWWINDOW.
C8_BorderlessStyle ==
    Completed =>
        /\ desktop[hwnd].style = {"WS_VISIBLE", "WS_POPUP", "WS_CLIPCHILDREN"}
        /\ {"SWP_FRAMECHANGED", "SWP_SHOWWINDOW"} \subseteq log[Len(log)].flags

\* C8's case: the window had a caption, a frame and a system menu.
C8_Witness ==
    /\ Completed
    /\ desktop0[hwnd].style = OverlappedStyle

\* C9: when no pattern is given, or no visible window satisfies one,
\* get_windows returns the empty list, and the script ends with status 0
\* having called nothing on any window and changed none.
C9_ZeroMatches ==
    /\ (Enumerated /\ Wanted = {}) => matches = <<>>
    /\ (Exited /\ exc # "EnumWindows" /\ Wanted = {}) =>
          /\ status = 0
          /\ exc = "none"
          /\ attempted = {}
          /\ log = <<>>
          /\ desktop = desktop0

\* C9's case: no pattern, a visible window, and the script has ended.
C9_Witness ==
    /\ Exited /\ exc # "EnumWindows"
    /\ args.patterns = <<>>
    /\ \E h \in 1..Len(desktop0) : "WS_VISIBLE" \in desktop0[h].style

\* C10: the exit status is 0 when EnumWindows did not fail, and not 0 when
\* it did.
C10_ExitStatus ==
    Exited => (status = 0 <=> exc # "EnumWindows")

====
